---- MODULE Spec2Model ----
(***************************************************************************)
(* A model of scrape_notams (notam.py): the page loop over the NOTAM       *)
(* listing, the per-row cell extraction, the detail resolution through a   *)
(* blob target or through forced clicks, the CSV sink with its periodic    *)
(* flush, and the pagination through the 'next' button.                    *)
(* Runs that follow one another on the same sink, a run over a planned     *)
(* site, and scrape_tenders (main.py) have their own specifications.       *)
(*                                                                         *)
(* A text is a sequence of characters; a sentinel or a cell value is a     *)
(* text of one or more opaque tokens.  The target site is the environment: *)
(* every answer of the browser is drawn from a small set in the action     *)
(* that asks for it.                                                       *)
(***************************************************************************)
EXTENDS Naturals, Sequences, FiniteSets, TLC

\* ---------------------------------------------------------------- bounds
MaxPages == 2        \* pages a listing serves before 'next' stops working
MaxRows == 2         \* rows of a listing page
MaxIrregular == 1    \* irregular answers of the site in a run
BulkRows == 50       \* rows of a page of the bulk listing (and twice that)
MaxRuns == 2         \* runs of scrape_notams on the same sink
TenderRows == 3      \* rows of the tender listing

\* ------------------------------------------------------ program constants
MinCells == 6        \* len(cols) >= 6
ClickAttempts == 4   \* range(4)
MinLines == 2        \* len(...splitlines()) < 2
FlushEvery == 100    \* total_rows_processed % 100 == 0
MinTenderCells == 5  \* main.py: await cells.count() >= 5

\* ------------------------------------------------------------------ texts
Header == <<"Location", "NOTAM", "Start Date", "End Date", "Status", "Text", "Details">>
CellError == <<"[Error reading cell]">>
NoPre == <<"[No <pre> found]">>
FailedToOpen == <<"[Failed to open detail page after retries]">>
NoAnchor == <<"[Anchor tag not found]">>
NavError(e) == <<"[Error navigating to blob or opening view: ", e, "]">>

Whitespace == {" ", "\n"}

RECURSIVE LStrip(_)
LStrip(s) ==
    IF s # <<>> /\ Head(s) \in Whitespace THEN LStrip(Tail(s)) ELSE s

RECURSIVE RStrip(_)
RStrip(s) ==
    IF s # <<>> /\ s[Len(s)] \in Whitespace
    THEN RStrip(SubSeq(s, 1, Len(s) - 1))
    ELSE s

\* str.strip(): leading and trailing whitespace removed
Strip(s) == RStrip(LStrip(s))

\* str.splitlines(): the lines of s, a trailing line break opening no new line
RECURSIVE SplitLines(_)
SplitLines(s) ==
    IF s = <<>> THEN <<>>
    ELSE IF \E k \in 1..Len(s) : s[k] = "\n"
         THEN LET k == CHOOSE j \in 1..Len(s) :
                          s[j] = "\n" /\ \A i \in 1..(j - 1) : s[i] # "\n"
              IN  <<SubSeq(s, 1, k - 1)>> \o SplitLines(SubSeq(s, k + 1, Len(s)))
         ELSE <<s>>

\* the short-read test of lines 87 and 112
TooShort(all_lines) == Len(SplitLines(Strip(all_lines))) < MinLines

\* the value of the two reads stored as it was read
PreTextMutant(inner, content) == IF TooShort(inner) THEN content ELSE inner

\* lines 85-89 and 111-114: the value stored in detail_text from the two reads
\* of the <pre> element (text_content() is read only after a short inner_text())
PreText(inner, content) == Strip(IF TooShort(inner) THEN content ELSE inner)

\* text_content() may answer None, and None.strip() raises
PreRaises(inner, contentIsNone) == TooShort(inner) /\ contentIsNone

\* ---------------------------------------------------------- environment
\* what the two reads of a <pre> element may answer
PreReads ==
    { [inner |-> <<"A", "\n", "B">>, content |-> <<"A", "\n", "B">>, none |-> FALSE],
      [inner |-> <<"A", " ", "B">>,  content |-> <<"A", "\n", "B">>, none |-> FALSE],
      [inner |-> <<"A", "\n", "B", " ">>, content |-> <<"A", "B">>,  none |-> FALSE],
      [inner |-> <<" ", "A", "\n">>, content |-> <<" ", "A", "\n">>, none |-> FALSE],
      [inner |-> <<>>,               content |-> <<>>,               none |-> FALSE],
      [inner |-> <<"A">>,            content |-> <<>>,               none |-> TRUE] }
RegularPre == [inner |-> <<"A", "\n", "B">>, content |-> <<"A", "\n", "B">>, none |-> FALSE]

\* the cell counts a row may show
CellCounts == {MinCells - 1, MinCells, MinCells + 1}

\* the text of cell c of row i of page p; a cell may also be empty
ColNames == <<"loc", "notam", "start", "end", "status", "text">>
CellText(p, i, c) == <<ColNames[c], ToString(p), ToString(i)>>
EmptyCells == {0, 1}        \* which cell of the row is empty (0: none)

\* the listings: the row counts a page may show (an empty page or a full one;
\* the short listing has the pages of one row)
Listing == {0, MaxRows}
BulkListing == Listing \cup {BulkRows, 2 * BulkRows}
\* pages of at most one row
ShortListing == {0, 1}
\* pages of one row or of three
ScenarioListing == {1, 3}

\* what an anchor's href attribute may read: None, or a text
Hrefs ==
    { [none |-> FALSE, text |-> <<"blob:", "x">>],
      [none |-> FALSE, text |-> <<"https:", "x">>],
      [none |-> FALSE, text |-> <<>>],
      [none |-> TRUE,  text |-> <<>>] }
RegularHref == [none |-> FALSE, text |-> <<"blob:", "x">>]

\* ------------------------------------------------------------------ state
VARIABLES
    pc,                     \* the position of scrape_notams
    site,                   \* the row counts the pages of the target site may show
    budget,                 \* irregular answers the site may still give
    playwright,             \* the async_playwright() context: "running" | "stopped"
    browser,                \* "none" | "open" | "closed"
    file,                   \* CSV_FILE on disk: [exists, lines]
    fileOpen,               \* whether the handle of line 29 is open
    buffer,                 \* rows written through the writer and not yet in the file
    synced,                 \* lines of the file covered by the last os.fsync
    page_number,
    total_rows_processed,
    rows,                   \* len(rows) of the current page
    index,                  \* the current row of the page, from 1
    cells,                  \* location, notam_no, start_date, end_date, status, summary
    detail_text,
    path,                   \* the branch of the detail resolution: "" | "blob" | "click" | "noanchor"
    detail_page,            \* whether detail_page refers to a surface
    surfaces,               \* detail surfaces that are open
    attempt,                \* the click attempts made for the current row
    spawned,                \* history: surfaces the clicks of the current row produced
    excs,                   \* history: exceptions raised in the current row's resolution
    handled,                \* history: whether the handler of line 123 ran for the row
    visited,                \* history: the rows whose cells were enumerated
    emitted,                \* history: the rows passed to writer.writerow
    error,                  \* the exception that left scrape_notams, or "none"
    ended,                  \* why the page loop was left, or "none"
    next_button,            \* what line 148 found on this page: "unset" | "absent" | "present"
    is_disabled,            \* what line 150 read on this page: "unset" | "true" | "false" | "None"
    next_clicks,            \* history: completed 'next' transitions
    pre,                    \* history: what the reads of the row's <pre> answered
    run,                    \* the number of this run on the sink, from 1
    tender,                 \* scrape_tenders (main.py): its position and locals
    plan                    \* the anchors of the site's rows: "any" | "scenario"

sinkVars == <<file, fileOpen, buffer, synced>>
pageVars == <<page_number, rows, index, next_button, is_disabled, next_clicks>>
rowVars == <<cells, detail_text, path, detail_page, attempt>>
rowHist == <<spawned, excs, handled, pre>>
outerVars == <<run, tender, plan>>
envVars == <<site, budget>>
vars == <<pc, site, budget, playwright, browser, file, fileOpen, buffer,
          synced, page_number, total_rows_processed, rows, index, cells,
          detail_text, path, detail_page, surfaces, attempt, spawned, excs, handled,
          visited, emitted, error, ended, next_button, is_disabled, next_clicks,
          pre, run, tender, plan>>

\* the sink before the run: absent, or left by an earlier run
NoSink == [exists |-> FALSE, lines |-> <<>>]
OldSink == [exists |-> TRUE, lines |-> <<Header>>]

\* no read of a <pre> yet, and the answer of one: whether the <pre> was found,
\* what inner_text() and text_content() gave
NoRead == [read |-> FALSE, found |-> FALSE, inner |-> <<>>, content |-> <<>>, none |-> FALSE]
PreRead(found, r) ==
    [read |-> TRUE, found |-> found, inner |-> r.inner, content |-> r.content, none |-> r.none]

\* scrape_tenders (main.py) at its entry: its position, the browser and the
\* playwright context, row_count, the loop index i, the list tenders, and what
\* it left: screenshots saved, the CSV, the exception raised to the caller;
\* history: the cell counts of the rows visited, the wait that timed out
NoCsv == [written |-> FALSE, rows |-> <<>>]
TenderStart ==
    [pc |-> "launch", browser |-> "none", playwright |-> "running", row_count |-> 0,
     i |-> 0, tenders |-> <<>>, shots |-> 0, csv |-> NoCsv, error |-> "none",
     seen |-> <<>>, timed_out |-> "none"]

\* scrape_tenders not started
TenderIdle == [TenderStart EXCEPT !.pc = "idle"]

\* scrape_notams at its entry, on the site with page sizes s and anchors as in
\* pl, with the sink f
NotamStart(s, f, pl) ==
    /\ pc = "launch"
    /\ site = s
    /\ plan = pl
    /\ budget = MaxIrregular
    /\ playwright = "running"
    /\ browser = "none"
    /\ file = f
    /\ fileOpen = FALSE
    /\ buffer = <<>>
    /\ synced = 0
    /\ page_number = 1
    /\ total_rows_processed = 0
    /\ rows = 0
    /\ index = 1
    /\ cells = [c \in 1..6 |-> <<>>]
    /\ detail_text = <<>>
    /\ path = ""
    /\ detail_page = FALSE
    /\ surfaces = 0
    /\ attempt = 0
    /\ spawned = 0
    /\ excs = 0
    /\ handled = FALSE
    /\ visited = <<>>
    /\ emitted = <<>>
    /\ error = "none"
    /\ ended = "none"
    /\ next_button = "unset"
    /\ is_disabled = "unset"
    /\ next_clicks = 0
    /\ pre = NoRead
    /\ run = 1

\* a run of scrape_notams
InitFrom(s, f, pl) == NotamStart(s, f, pl) /\ tender = TenderIdle

InitWith(s, f) == InitFrom(s, f, "any")

Init == InitWith(Listing, NoSink)
InitBulk == InitWith(BulkListing, NoSink)
InitShort == InitWith(ShortListing, NoSink)
InitScenario == InitFrom(ScenarioListing, NoSink, "scenario")

\* The site answers regularly (a row of six non-empty cells whose anchor has a
\* blob target, whose surface opens and shows a two-line <pre>) or, at most
\* MaxIrregular times in a run and only on a page of the small listing, in
\* another way. `c` is the number of irregular answers a step takes.
Pays(c) ==
    /\ c <= budget
    /\ c > 0 => rows < BulkRows
    /\ budget' = budget - c
Cost(irregularAnswer) == IF irregularAnswer THEN 1 ELSE 0

\* -------------------------------------------------------------- unwinding
\* a close that drops what the buffer holds
ClosedMutant(f, buf) == f

\* the file buffer reaches the file when the handle is closed
Closed(f, buf) == [f EXCEPT !.lines = f.lines \o buf]

\* an unwinding that leaves the async with block of line 14 without stopping
\* playwright
UnwindMutant(e) ==
    /\ pc' = "raised"
    /\ error' = e
    /\ file' = IF fileOpen THEN Closed(file, buffer) ELSE file
    /\ buffer' = <<>>
    /\ fileOpen' = FALSE
    /\ UNCHANGED <<synced, browser, playwright, surfaces, ended>>

\* an exception leaving scrape_notams: the with block of line 29 closes the file,
\* the async with block of line 14 stops playwright; line 167 is not reached
Unwind(e) ==
    /\ pc' = "raised"
    /\ error' = e
    /\ file' = IF fileOpen THEN Closed(file, buffer) ELSE file
    /\ buffer' = <<>>
    /\ fileOpen' = FALSE
    /\ playwright' = "stopped"
    /\ UNCHANGED <<synced, browser, surfaces, ended>>

\* -------------------------------------------------------------- the run
\* lines 14-19
Launch ==
    /\ pc = "launch"
    /\ browser' = "open"
    /\ pc' = "goto"
    /\ UNCHANGED <<outerVars, envVars, playwright, sinkVars, pageVars, total_rows_processed,
                   rowVars, rowHist, surfaces, visited, emitted, error, ended>>

\* lines 21-25
Navigate ==
    /\ pc = "goto"
    /\ \/ /\ pc' = "open_sink"
          /\ UNCHANGED <<playwright, browser, sinkVars, surfaces, error, ended>>
       \/ Unwind("goto")
    /\ UNCHANGED <<outerVars, envVars, pageVars, total_rows_processed, rowVars, rowHist,
                   visited, emitted>>

\* a header written by every run
WritesHeaderMutant(f) == TRUE

\* lines 28 and 32: file_exists = os.path.isfile(CSV_FILE); if not file_exists
WritesHeader(f) == ~f.exists

\* lines 27-37
OpenSink ==
    /\ pc = "open_sink"
    /\ file' = [file EXCEPT !.exists = TRUE]
    /\ fileOpen' = TRUE
    /\ buffer' = IF WritesHeader(file) THEN <<Header>> ELSE <<>>
    /\ page_number' = 1
    /\ total_rows_processed' = 0
    /\ pc' = "wait_rows"
    /\ UNCHANGED <<outerVars, envVars, playwright, browser, synced, rows, index, next_button,
                   is_disabled, next_clicks, rowVars, rowHist, surfaces, visited,
                   emitted, error, ended>>

\* lines 40-52
WaitForRows ==
    /\ pc = "wait_rows"
    /\ \/ /\ ended' = "no_rows"
          /\ pc' = "exit_with"
          /\ UNCHANGED <<rows, index, playwright, browser, sinkVars, surfaces, error>>
       \/ \E n \in site :
             /\ rows' = n
             /\ index' = 1
             /\ pc' = IF n = 0 THEN "checkpoint" ELSE "row"
             /\ UNCHANGED <<playwright, browser, sinkVars, surfaces, error, ended>>
       \/ /\ Unwind("rows")
          /\ UNCHANGED <<rows, index>>
    /\ next_button' = "unset"
    /\ is_disabled' = "unset"
    /\ UNCHANGED <<outerVars, envVars, page_number, next_clicks, total_rows_processed, rowVars,
                   rowHist, visited, emitted>>

\* ---------------------------------------------------------------- a row
\* the test of line 57 written with > for >=
QualifiesMutant(n) == n > MinCells

\* line 57
Qualifies(n) == n >= MinCells

\* a failing read that keeps the values read before it (the failure in cell 5)
RowFieldsMutant(read, e, p, i) ==
    IF read = "fail"
    THEN [c \in 1..6 |-> IF c < 6 THEN CellText(p, i, c) ELSE CellError]
    ELSE [c \in 1..6 |-> IF c = e THEN <<>> ELSE CellText(p, i, c)]

\* lines 58-68: the six fields from the cell reads; `read` is "ok" or "fail",
\* `e` the cell that reads as the empty text (0: none)
RowFields(read, e, p, i) ==
    IF read = "fail"
    THEN [c \in 1..6 |-> CellError]
    ELSE [c \in 1..6 |-> IF c = e THEN <<>> ELSE CellText(p, i, c)]

\* history: row i of page p was enumerated with n cells, and how the read of its
\* six cells went ("none": the row was skipped)
Visit(p, i, n, read) == [page |-> p, index |-> i, ncols |-> n, read |-> read]

\* the loop of line 55 moves to the next row, or past the last one
AfterRow == IF index >= rows THEN "checkpoint" ELSE "row"

\* lines 55-70: enumerate the cells of the row, skip a row of fewer than 6, read
\* the six cells of the others. An exception of line 56 is caught nowhere.
ReadRow ==
    /\ pc = "row"
    /\ \/ /\ Pays(1)
          /\ Unwind("cells")
          /\ UNCHANGED <<rowVars, rowHist, visited, index>>
       \/ \E n \in CellCounts :
             /\ IF Qualifies(n)
                THEN /\ \E read \in {"ok", "fail"}, e \in EmptyCells :
                           /\ Pays(Cost(n # MinCells) + Cost(read = "fail" \/ e # 0))
                           /\ cells' = RowFields(read, e, page_number, index)
                           /\ visited' = Append(visited, Visit(page_number, index, n, read))
                     /\ detail_text' = <<>>
                     /\ spawned' = 0
                     /\ excs' = 0
                     /\ handled' = FALSE
                     /\ pre' = NoRead
                     /\ pc' = "anchor"
                     /\ UNCHANGED <<index, path, detail_page, attempt>>
                ELSE /\ Pays(1)
                     /\ visited' = Append(visited, Visit(page_number, index, n, "none"))
                     /\ index' = index + 1
                     /\ pc' = AfterRow
                     /\ UNCHANGED <<cells, detail_text, path, detail_page, attempt, rowHist>>
             /\ UNCHANGED <<playwright, browser, sinkVars, surfaces, error, ended>>
    /\ UNCHANGED <<outerVars, site, page_number, rows, next_button, is_disabled, next_clicks,
                   total_rows_processed, emitted>>

\* a resolution without the handler of line 123: the exception leaves the row
CaughtMutant ==
    /\ excs' = excs + 1
    /\ pc' = "raised"
    /\ UNCHANGED <<handled, detail_text>>

\* the handler of lines 123-124
Caught ==
    /\ excs' = excs + 1
    /\ handled' = TRUE
    /\ detail_text' = NavError("e")
    /\ pc' = "write"

\* line 77
IsBlob(href) == ~href.none /\ href.text # <<>> /\ Head(href.text) = "blob:"

\* a row without anchor sent to the forced clicks
AnchorMissingMutant ==
    /\ path' = "click"
    /\ detail_page' = FALSE
    /\ attempt' = 0
    /\ pc' = "click"
    /\ UNCHANGED <<detail_text, excs, handled>>

\* lines 121-122: the row has no anchor
AnchorMissing ==
    /\ path' = "noanchor"
    /\ detail_text' = NoAnchor
    /\ pc' = "write"
    /\ UNCHANGED <<detail_page, attempt, excs, handled>>

\* what the site has in row i of page p: any anchor (or none, or a failing
\* query) on a site that is not planned; on the planned one, an anchor with a blob
\* target, but in row 2 of page 1 an anchor with another target and in row 3 of
\* page 1 no anchor. A planned answer is not an irregular one.
AnchorKinds == {"raises", "none", "blob", "other"}
Anchors(p, i) ==
    IF plan = "any" THEN AnchorKinds
    ELSE IF p = 1 /\ i = 2 THEN {"other"}
    ELSE IF p = 1 /\ i = 3 THEN {"none"}
    ELSE {"blob"}
AnchorCost(irregularAnswer) == IF plan = "any" THEN Cost(irregularAnswer) ELSE 0

\* lines 71-77, 94-97, 121-122: find the anchor, read its target, choose the branch
FindAnchor ==
    /\ pc = "anchor"
    /\ \/ /\ "raises" \in Anchors(page_number, index)
          /\ Pays(1)             \* row.query_selector or get_attribute raises
          /\ Caught
          /\ UNCHANGED <<path, detail_page, attempt>>
       \/ /\ "none" \in Anchors(page_number, index)
          /\ Pays(AnchorCost(TRUE))      \* no anchor in the row
          /\ AnchorMissing
       \/ \E href \in Hrefs :
             /\ (IF IsBlob(href) THEN "blob" ELSE "other") \in Anchors(page_number, index)
             /\ Pays(AnchorCost(href # RegularHref))
             /\ IF IsBlob(href)
                THEN /\ path' = "blob"
                     /\ pc' = "blob_open"
                     /\ UNCHANGED <<detail_text, detail_page, attempt, excs, handled>>
                ELSE /\ path' = "click"
                     /\ detail_page' = FALSE
                     /\ attempt' = 0
                     /\ pc' = "click"
                     /\ UNCHANGED <<detail_text, excs, handled>>
    /\ UNCHANGED <<outerVars, site, playwright, browser, sinkVars, pageVars, total_rows_processed,
                   cells, surfaces, spawned, pre, visited, emitted, error, ended>>

\* lines 78-81: open a surface on the blob target and wait for its <pre>
BlobOpen ==
    /\ pc = "blob_open"
    /\ \/ /\ Pays(1)             \* context.new_page raises: no surface
          /\ Caught
          /\ UNCHANGED <<detail_page, surfaces>>
       \/ /\ Pays(1)             \* goto or a wait raises on the new surface
          /\ detail_page' = TRUE
          /\ surfaces' = surfaces + 1
          /\ Caught
       \/ /\ Pays(0)
          /\ detail_page' = TRUE
          /\ surfaces' = surfaces + 1
          /\ pc' = "blob_read"
          /\ UNCHANGED <<detail_text, excs, handled>>
    /\ UNCHANGED <<outerVars, site, playwright, browser, sinkVars, pageVars, total_rows_processed,
                   cells, path, attempt, spawned, pre, visited, emitted, error, ended>>

\* lines 82-93 and 109-118: read the <pre> of the surface, then close the surface.
\* Nothing closes the surface when a read raises; a close that raises may or may
\* not have closed it.
ReadPreAndClose ==
    /\ \/ /\ Pays(1)             \* query_selector or inner_text raises
          /\ Caught
          /\ UNCHANGED <<surfaces, pre>>
       \/ \E r \in PreReads :    \* None.strip() raises
             /\ PreRaises(r.inner, r.none)
             /\ Pays(1)
             /\ Caught
             /\ pre' = PreRead(TRUE, r)
             /\ UNCHANGED surfaces
       \/ \E found \in BOOLEAN, r \in PreReads :
             /\ found => ~PreRaises(r.inner, r.none)
             /\ ~found => r = RegularPre
             /\ pre' = PreRead(found, r)
             /\ \/ /\ Pays(Cost(~found \/ r # RegularPre))
                   /\ detail_text' = IF found THEN PreText(r.inner, r.content) ELSE NoPre
                   /\ surfaces' = surfaces - 1
                   /\ pc' = "write"
                   /\ UNCHANGED <<excs, handled>>
                \/ /\ Pays(Cost(~found \/ r # RegularPre) + 1)   \* detail_page.close raises
                   /\ surfaces' \in {surfaces, surfaces - 1}
                   /\ Caught
    /\ UNCHANGED <<outerVars, site, playwright, browser, sinkVars, pageVars, total_rows_processed,
                   cells, path, detail_page, attempt, spawned, visited, emitted,
                   error, ended>>

BlobRead == pc = "blob_read" /\ ReadPreAndClose

\* lines 98-107: one click+await pair. A click that raises, or a wait for the new
\* surface that times out, leaves detail_page as it was; a surface whose <pre>
\* does not appear in time stays in detail_page, open, and the loop goes on.
ClickAttempt ==
    /\ pc = "click"
    /\ attempt < ClickAttempts
    /\ \/ /\ excs' = excs + 1                   \* no new surface
          /\ attempt' = attempt + 1
          /\ UNCHANGED <<detail_page, surfaces, spawned, pc>>
       \/ /\ detail_page' = TRUE                \* a surface, and no <pre> in time
          /\ surfaces' = surfaces + 1
          /\ spawned' = spawned + 1
          /\ excs' = excs + 1
          /\ attempt' = attempt + 1
          /\ UNCHANGED pc
       \/ /\ detail_page' = TRUE                \* a surface with its <pre>: break
          /\ surfaces' = surfaces + 1
          /\ spawned' = spawned + 1
          /\ attempt' = attempt + 1
          /\ pc' = "click_read"
          /\ UNCHANGED excs
    /\ UNCHANGED <<outerVars, envVars, playwright, browser, sinkVars, pageVars, total_rows_processed,
                   cells, detail_text, path, handled, pre, visited, emitted, error, ended>>

\* the sentinel of line 120 given after the last attempt whatever detail_page holds
ClickExhaustedMutant ==
    /\ pc = "click"
    /\ attempt >= ClickAttempts
    /\ pc' = "write"
    /\ detail_text' = FailedToOpen
    /\ UNCHANGED <<outerVars, envVars, playwright, browser, sinkVars, pageVars, total_rows_processed,
                   cells, path, detail_page, surfaces, attempt, rowHist, visited,
                   emitted, error, ended>>

\* lines 108, 119-120: the loop ran out of attempts
ClickExhausted ==
    /\ pc = "click"
    /\ attempt >= ClickAttempts
    /\ IF detail_page
       THEN pc' = "click_read" /\ UNCHANGED detail_text
       ELSE pc' = "write" /\ detail_text' = FailedToOpen
    /\ UNCHANGED <<outerVars, envVars, playwright, browser, sinkVars, pageVars, total_rows_processed,
                   cells, path, detail_page, surfaces, attempt, rowHist, visited,
                   emitted, error, ended>>

ClickRead == pc = "click_read" /\ ReadPreAndClose

\* a record whose last field repeats the summary
RecordMutant == <<cells[1], cells[2], cells[3], cells[4], cells[5], cells[6], cells[6]>>

\* lines 126-135: the row handed to the writer, in the order of the fieldnames
Record == <<cells[1], cells[2], cells[3], cells[4], cells[5], cells[6], detail_text>>

\* a writer that puts the row before the rows it holds
WrittenMutant(buf, rec) == <<rec>> \o buf

\* line 127: writer.writerow puts the row after what was written before
Written(buf, rec) == Append(buf, rec)

\* lines 126-138
WriteRow ==
    /\ pc = "write"
    /\ buffer' = Written(buffer, Record)
    /\ total_rows_processed' = total_rows_processed + 1
    /\ emitted' = Append(emitted, [page |-> page_number, index |-> index, record |-> Record])
    /\ index' = index + 1
    /\ pc' = AfterRow
    \* the row is over: its history ends, and the locals of its resolution are
    \* dead (line 78 or 97 and line 98 set them anew before the next use)
    /\ path' = ""
    /\ detail_page' = FALSE
    /\ attempt' = 0
    /\ spawned' = 0
    /\ excs' = 0
    /\ handled' = FALSE
    /\ pre' = NoRead
    /\ UNCHANGED <<outerVars, site, budget, playwright, browser, file, fileOpen, synced, page_number,
                   rows, next_button, is_disabled, next_clicks, cells, detail_text,
                   surfaces, visited, error, ended>>

\* line 141
FlushDue(total) == total % FlushEvery = 0

\* lines 140-144: after the rows of a page
Checkpoint ==
    /\ pc = "checkpoint"
    /\ IF FlushDue(total_rows_processed)
       THEN /\ file' = Closed(file, buffer)
            /\ buffer' = <<>>
            /\ synced' = Len(file'.lines)
       ELSE UNCHANGED <<file, buffer, synced>>
    /\ pc' = "next"
    /\ UNCHANGED <<outerVars, envVars, playwright, browser, fileOpen, pageVars, total_rows_processed,
                   rowVars, rowHist, surfaces, visited, emitted, error, ended>>

\* the comparison of line 151 against "True"
LastPageMutant(disabled) == disabled = "True"

\* line 151
LastPage(disabled) == disabled = "true"

Leave(why) == ended' = why /\ pc' = "exit_with"

\* a page number that skips a page
NextPageMutant(n) == n + 2

\* line 157: page_number += 1
NextPage(n) == n + 1

\* lines 146-163: look for the 'next' button and go to the next page
HandleNext ==
    /\ pc = "next"
    /\ \/ /\ next_button' = "absent"
          /\ Leave("no_next")
          /\ UNCHANGED <<is_disabled, page_number, next_clicks>>
       \/ /\ \/ UNCHANGED next_button          \* page.query_selector raises
             \/ next_button' = "present"        \* get_attribute raises
          /\ Leave("next_error")
          /\ UNCHANGED <<is_disabled, page_number, next_clicks>>
       \/ \E d \in {"true", "false", "None"} :
             /\ next_button' = "present"
             /\ is_disabled' = d
             /\ IF LastPage(d)
                THEN /\ Leave("last_page")
                     /\ UNCHANGED <<page_number, next_clicks>>
                ELSE \/ /\ Leave("next_error")  \* click or the settle delay raises
                        /\ UNCHANGED <<page_number, next_clicks>>
                     \/ /\ page_number < MaxPages
                        /\ page_number' = NextPage(page_number)
                        /\ next_clicks' = next_clicks + 1
                        /\ pc' = "wait_rows"
                        /\ UNCHANGED ended
    /\ UNCHANGED <<outerVars, envVars, playwright, browser, sinkVars, rows, index,
                   total_rows_processed, rowVars, rowHist, surfaces, visited, emitted, error>>

\* the end of the with block of line 29: the file is closed
CloseSink ==
    /\ pc = "exit_with"
    /\ file' = Closed(file, buffer)
    /\ buffer' = <<>>
    /\ fileOpen' = FALSE
    /\ pc' = "close_browser"
    /\ next_button' = "unset"
    /\ is_disabled' = "unset"
    /\ UNCHANGED <<outerVars, envVars, playwright, browser, synced, page_number, rows, index,
                   next_clicks, total_rows_processed, rowVars, rowHist, surfaces, visited,
                   emitted, error, ended>>

\* lines 165-167, and the end of the async with block of line 14
CloseBrowser ==
    /\ pc = "close_browser"
    /\ browser' = "closed"
    /\ surfaces' = 0
    /\ playwright' = "stopped"
    /\ pc' = "done"
    /\ UNCHANGED <<outerVars, envVars, sinkVars, pageVars, total_rows_processed, rowVars, rowHist,
                   visited, emitted, error, ended>>

Next ==
    \/ Launch
    \/ Navigate
    \/ OpenSink
    \/ WaitForRows
    \/ ReadRow
    \/ FindAnchor
    \/ BlobOpen
    \/ BlobRead
    \/ ClickAttempt
    \/ ClickExhausted
    \/ ClickRead
    \/ WriteRow
    \/ Checkpoint
    \/ HandleNext
    \/ CloseSink
    \/ CloseBrowser

Terminated == pc \in {"done", "raised"}

\* ------------------------------------------------- scrape_tenders (main.py)
notamVars == <<pc, site, budget, playwright, browser, file, fileOpen, buffer,
               synced, page_number, total_rows_processed, rows, index, cells,
               detail_text, path, detail_page, surfaces, attempt, spawned, excs,
               handled, visited, emitted, error, ended, next_button, is_disabled,
               next_clicks, pre, run, plan>>

\* the cell counts a tender row may show, and the text of cell c of row i
TenderCellCounts == {MinTenderCells - 1, MinTenderCells, MinTenderCells + 1}
TenderCols == <<"Sr", "Title", "Location", "Advertising Date", "Closing Date">>
TenderCell(i, c) == <<" ", TenderCols[c], ToString(i), "\n">>

\* an exception leaves scrape_tenders: the async with block of line 50 stops
\* playwright
TenderRaise(e) == [tender EXCEPT !.pc = "raised", !.error = e, !.playwright = "stopped"]

\* a return from inside the async with block
TenderReturn(t) == [t EXCEPT !.pc = "returned", !.playwright = "stopped"]

\* main.py lines 50-56
TenderLaunch ==
    /\ tender.pc = "launch"
    /\ tender' = [tender EXCEPT !.pc = "goto", !.browser = "open"]
    /\ UNCHANGED notamVars

\* main.py lines 58-61
TenderNavigate ==
    /\ tender.pc = "goto"
    /\ \/ tender' = [tender EXCEPT !.pc = "heading"]
       \/ tender' = TenderRaise("goto")
    /\ UNCHANGED notamVars

\* main.py lines 68-72 and 78-81: the handler of a wait that did not succeed saves
\* a screenshot and returns; page.screenshot is awaited inside the handler, under
\* no try
TenderGiveUp(wait) ==
    \/ tender' = TenderReturn([tender EXCEPT !.timed_out = wait, !.shots = @ + 1])
    \/ tender' = [TenderRaise("screenshot") EXCEPT !.timed_out = wait]

\* main.py lines 63-72
TenderWaitHeading ==
    /\ tender.pc = "heading"
    /\ \/ tender' = [tender EXCEPT !.pc = "rows"]
       \/ TenderGiveUp("heading")
    /\ UNCHANGED notamVars

\* main.py lines 74-81
TenderWaitRows ==
    /\ tender.pc = "rows"
    /\ \/ tender' = [tender EXCEPT !.pc = "count"]
       \/ TenderGiveUp("rows")
    /\ UNCHANGED notamVars

\* the loop of main.py line 91 after row i
TenderAfterRow(i, n) == IF i + 1 >= n THEN "close" ELSE "row"

\* main.py lines 83-88
TenderCount ==
    /\ tender.pc = "count"
    /\ \/ \E n \in 0..TenderRows :
             tender' = [tender EXCEPT !.row_count = n, !.i = 0, !.tenders = <<>>,
                                      !.pc = IF n = 0 THEN "close" ELSE "row"]
       \/ tender' = TenderRaise("count")
    /\ UNCHANGED notamVars

\* main.py line 95
TenderQualifies(n) == n >= MinTenderCells

\* main.py lines 97-103: the dict of row i, in the order of its keys
TenderEntry(i) == [c \in 1..5 |-> Strip(TenderCell(i, c))]

\* main.py lines 91-103
TenderRow ==
    /\ tender.pc = "row"
    /\ \/ \E n \in TenderCellCounts :
             tender' = [tender EXCEPT
                          !.seen = Append(@, n),
                          !.tenders = IF TenderQualifies(n)
                                      THEN Append(@, TenderEntry(tender.i)) ELSE @,
                          !.i = @ + 1,
                          !.pc = TenderAfterRow(tender.i, tender.row_count)]
       \/ tender' = TenderRaise("cells")
    /\ UNCHANGED notamVars

\* main.py lines 105-106
TenderClose ==
    /\ tender.pc = "close"
    /\ \/ tender' = [tender EXCEPT !.pc = "csv", !.browser = "closed"]
       \/ tender' = TenderRaise("close")
    /\ UNCHANGED notamVars

\* main.py lines 108-112
TenderSave ==
    /\ tender.pc = "csv"
    /\ \/ tender' = TenderReturn([tender EXCEPT !.csv = [written |-> TRUE, rows |-> tender.tenders]])
       \/ tender' = TenderRaise("to_csv")
    /\ UNCHANGED notamVars

TenderNext ==
    \/ TenderLaunch
    \/ TenderNavigate
    \/ TenderWaitHeading
    \/ TenderWaitRows
    \/ TenderCount
    \/ TenderRow
    \/ TenderClose
    \/ TenderSave

TenderInit == NotamStart(Listing, NoSink, "any") /\ tender = TenderStart

\* lines 170-171 once more: the script is started again after a run has ended, on
\* the sink the run left; the irregular answers of the site are those of the
\* first run (a wait that times out and an exception that ends a run are not
\* counted among them, and happen in every run)
Rerun ==
    /\ Terminated
    /\ run < MaxRuns
    /\ run' = run + 1
    /\ pc' = "launch"
    /\ playwright' = "running"
    /\ browser' = "none"
    /\ fileOpen' = FALSE
    /\ buffer' = <<>>
    /\ page_number' = 1
    /\ total_rows_processed' = 0
    /\ rows' = 0
    /\ index' = 1
    /\ cells' = [c \in 1..6 |-> <<>>]
    /\ detail_text' = <<>>
    /\ path' = ""
    /\ detail_page' = FALSE
    /\ surfaces' = 0
    /\ attempt' = 0
    /\ spawned' = 0
    /\ excs' = 0
    /\ handled' = FALSE
    /\ pre' = NoRead
    /\ visited' = <<>>
    /\ emitted' = <<>>
    /\ error' = "none"
    /\ ended' = "none"
    /\ next_button' = "unset"
    /\ is_disabled' = "unset"
    /\ next_clicks' = 0
    /\ budget' = 0
    /\ UNCHANGED <<site, file, synced, tender, plan>>

RunsNext == Next \/ Rerun

\* a run over the listing of small pages
Spec == Init /\ [][Next]_vars
\* a run over the listing that also has pages of BulkRows and 2*BulkRows rows
SpecBulk == InitBulk /\ [][Next]_vars
\* scrape_notams is one coroutine that is run to its end: every step it can take,
\* it takes; the run is over the listing of pages of at most one row
FairSpec == InitShort /\ [][Next]_vars /\ WF_vars(Next)
\* up to MaxRuns runs, one after the other, over the listing of pages of at most
\* one row, the first one finding no sink
RunsSpec == InitShort /\ [][RunsNext]_vars
\* a run of scrape_tenders
TenderSpec == TenderInit /\ [][TenderNext]_vars
\* a run over the planned site, on a fresh sink
ScenarioSpec == InitScenario /\ [][Next]_vars

\* ------------------------------------------------------------ properties
\* the rows the writer was given and that no flush has put in the file
Unflushed == Len(SelectSeq(buffer, LAMBDA r : r # Header))

\* the rows written in this run, as the writer was given them
Records == [k \in 1..Len(emitted) |-> emitted[k].record]

\* the sentinels a Details field may hold
Sentinels == {NoPre, FailedToOpen, NoAnchor, NavError("e")}

\* a qualifying row is being resolved or is about to be written
InRow == pc \in {"anchor", "blob_open", "blob_read", "click", "click_read", "write"}

\* C1: each time the cumulative count of appended records reaches a multiple of
\* 100, the sink is flushed before any further record is appended: past the
\* flush test, a count that is a positive multiple of 100 leaves nothing unflushed.
C1_FlushAtEveryHundredth ==
    (total_rows_processed > 0 /\ total_rows_processed % FlushEvery = 0 /\ pc # "checkpoint")
        => Unflushed = 0

\* C2: fewer than 100 appended records are ever waiting for an explicit flush
\* (the state that stands right before the flush test is left out).
C2_UnflushedBelowHundred ==
    pc # "checkpoint" => Unflushed < FlushEvery

\* C3: when a row's record is written, every detail surface opened while
\* resolving it has been closed, so none is open when the next row starts.
C3_SurfacesClosedBeforeWrite ==
    pc = "write" => surfaces = 0

\* C4: the records written are, in order and once each, the rows visited with at
\* least 6 cells (the one in progress excepted until it is written); a row with
\* fewer than 6 cells gives no record and starts no detail resolution.
C4_OneRecordPerQualifyingRow ==
    LET q == SelectSeq(visited, LAMBDA v : v.ncols >= MinCells)
        n == IF InRow THEN Len(q) - 1 ELSE Len(q)
    IN  /\ Len(emitted) = n
        /\ total_rows_processed = n
        /\ \A k \in 1..n : emitted[k].page = q[k].page /\ emitted[k].index = q[k].index
        /\ \A j, k \in 1..Len(visited) :
              (visited[j].page = visited[k].page /\ visited[j].index = visited[k].index) => j = k
        /\ InRow => /\ visited # <<>>
                    /\ visited[Len(visited)].ncols >= MinCells
                    /\ visited[Len(visited)].page = page_number
                    /\ visited[Len(visited)].index = index

\* C4 witness: a finished run that skipped a row of fewer than 6 cells, wrote a
\* row whose cell reads failed, or wrote a row whose detail resolution failed
C4_Witness ==
    /\ pc = "done"
    /\ Len(emitted) >= 2
    /\ \/ \E k \in 1..Len(visited) : visited[k].ncols < MinCells
       \/ \E k \in 1..Len(emitted) : emitted[k].record[1] = CellError
       \/ \E k \in 1..Len(emitted) : emitted[k].record[7] = NavError("e")

\* C5: every record handed to the writer has its seven fields non-empty.
C5_AllFieldsNonEmpty ==
    \A k \in 1..Len(emitted) : \A f \in 1..7 : emitted[k].record[f] # <<>>

\* C6 as stated: whenever an exception was raised while resolving a row's detail,
\* the Details of the row is a sentinel.
C6_EveryExceptionBecomesSentinel ==
    (pc = "write" /\ excs > 0) => detail_text \in Sentinels

\* C6 as amended: no exception of a detail resolution leaves scrape_notams; one
\* that reaches the handler of line 123 puts the error sentinel in Details; any
\* other one was raised inside a click attempt and swallowed by the retry loop,
\* and Details then holds a payload only if a click produced a surface.
C6_ResolutionNeverRaises ==
    /\ pc = "raised" => excs = 0
    /\ (pc = "write" /\ handled) => detail_text = NavError("e")
    /\ (pc = "write" /\ excs > 0 /\ ~handled) => path = "click"
    /\ (pc = "write" /\ excs > 0 /\ detail_text \notin Sentinels) => spawned > 0

\* C6 witness: a finished run in which a row whose resolution raised was written
\* with the error sentinel, and a later row was written after it
C6_Witness ==
    /\ pc = "done"
    /\ \E k \in 1..Len(emitted) : emitted[k].record[7] = NavError("e") /\ k < Len(emitted)

\* C7: no failure on a single row ends the run: no exception raised while
\* enumerating a row's cells leaves scrape_notams.
C7_NoRowFailureEndsRun ==
    error # "cells"

\* C8: on the click path at most 4 click attempts are made, and Details is the
\* failed-to-open sentinel exactly when no attempt produced a surface.
C8_ClickRetries ==
    /\ attempt <= ClickAttempts
    /\ (pc = "write" /\ path = "click") => (detail_text = FailedToOpen <=> spawned = 0)
    /\ (pc = "write" /\ detail_text = FailedToOpen) => (path = "click" /\ attempt = ClickAttempts)

\* C8 witness: four attempts produced no surface and the row is about to be written
C8_Witness ==
    pc = "write" /\ path = "click" /\ attempt = ClickAttempts /\ spawned = 0
        /\ detail_text = FailedToOpen

\* C9: the page loop is left, with no 'next' click and no further page, when the
\* wait for rows times out, when 'next' is absent and when its aria-disabled reads
\* "true"; once left it is never entered again; and the run terminates.
C9_PageLoopEnds ==
    /\ [][(pc = "next" /\ (next_button' = "absent" \/ is_disabled' = "true"))
             => (pc' = "exit_with" /\ ended' # "none"
                 /\ UNCHANGED <<page_number, next_clicks>>)]_vars
    /\ [][ended' = "no_rows"
             => (pc' \in {"exit_with", "close_browser", "done"}
                 /\ UNCHANGED <<page_number, next_clicks, visited, emitted>>)]_vars
    /\ [][ended # "none"
             => (pc' \in {"close_browser", "done"}
                 /\ UNCHANGED <<ended, page_number, next_clicks, visited, emitted>>)]_vars
    /\ <>Terminated

\* C9 witness: a run that ended on the second page at a disabled 'next'
C9_Witness ==
    pc = "done" /\ ended = "last_page" /\ page_number = 2 /\ next_clicks = 1

\* C10: once the page loop has ended (no rows, no 'next', a disabled 'next', or an
\* exception while handling 'next') no record is appended any more, and from the
\* closing of the sink on every record of the run is in the file.
C10_TerminalKeepsRecords ==
    /\ [](ended # "none" =>
            /\ pc \in {"exit_with", "close_browser", "done"}
            /\ pc # "exit_with" =>
                  /\ buffer = <<>>
                  /\ ~fileOpen
                  /\ Len(file.lines) >= Len(emitted)
                  /\ SubSeq(file.lines, Len(file.lines) - Len(emitted) + 1, Len(file.lines))
                        = Records)
    /\ [][ended # "none" => UNCHANGED <<emitted, total_rows_processed>>]_vars

\* C10 witness: a run ended by an exception while handling 'next', with records
C10_Witness ==
    pc = "done" /\ ended = "next_error" /\ Len(emitted) > 0

\* C11: on every way a run ends the browser launched at the start has been
\* released: closed by line 167 on the normal way, and on an exception that
\* leaves the page loop or the initial navigation taken down with playwright,
\* which the async with block of line 14 stops; until the run ends it is kept.
C11_BrowserReleased ==
    /\ Terminated => (browser # "none" /\ (browser = "closed" \/ playwright = "stopped"))
    /\ pc = "done" => (browser = "closed" /\ playwright = "stopped")
    /\ pc = "raised" => (error # "none" /\ playwright = "stopped")
    /\ (~Terminated /\ pc # "launch") => (browser = "open" /\ playwright = "running")

\* C11 witness: a run ended by an exception out of the page loop, the sink open
C11_Witness ==
    pc = "raised" /\ error = "rows" /\ page_number = 2 /\ browser = "open"
        /\ playwright = "stopped"

\* the sink as the writer has made it: the file and what the buffer still holds
Sink == file.lines \o buffer

\* C12: across the runs on one sink a run writes the header if and only if the
\* sink file did not exist when the run checked it, and the sink that exists
\* holds exactly one header line, as its first line.
C12_HeaderOnce ==
    /\ [][pc = "open_sink" => (buffer' = <<Header>> <=> ~file.exists)]_vars
    /\ [][(pc = "open_sink" /\ file.exists) => buffer' = <<>>]_vars
    /\ [](file.exists =>
            /\ Sink # <<>>
            /\ Sink[1] = Header
            /\ \A k \in 2..Len(Sink) : Sink[k] # Header)
    /\ []((Terminated /\ file.exists) => (file.lines # <<>> /\ file.lines[1] = Header))

\* C12 witness: a second run that appended records after those of the first
C12_Witness ==
    /\ run = 2 /\ pc = "done" /\ Len(emitted) > 0
    /\ Len(file.lines) > 1 + Len(emitted)

\* the rows visited with at least 6 cells, in the order of the visits
Qualifying == SelectSeq(visited, LAMBDA v : v.ncols >= MinCells)

\* C13: when the read of the cells of a qualifying row fails, the six summary
\* fields of the row's record all are "[Error reading cell]", and when it does
\* not fail none is: never a mix. The row is read once and is still recorded.
C13_CellFailureDegradesRow ==
    /\ \A k \in 1..Len(emitted) :
          /\ k <= Len(Qualifying)
          /\ Qualifying[k].read = "fail" => \A c \in 1..6 : emitted[k].record[c] = CellError
          /\ Qualifying[k].read = "ok" => \A c \in 1..6 : emitted[k].record[c] # CellError
          /\ (\E c \in 1..6 : emitted[k].record[c] = CellError)
                => (\A c \in 1..6 : emitted[k].record[c] = CellError)
    /\ (InRow /\ visited[Len(visited)].read = "fail") => \A c \in 1..6 : cells[c] = CellError
    /\ Len(emitted) >= Len(Qualifying) - 1
    /\ ~InRow => Len(emitted) = Len(Qualifying)
    /\ \A j, k \in 1..Len(visited) :
          (visited[j].page = visited[k].page /\ visited[j].index = visited[k].index) => j = k

\* C13 witness: a finished run that recorded a row whose cell read failed and a
\* row after it
C13_Witness ==
    /\ pc = "done"
    /\ \E k \in 1..Len(emitted) :
          /\ k < Len(emitted)
          /\ Qualifying[k].read = "fail"
          /\ emitted[k].record[6] = CellError

\* C14: the records appended to the sink in a run are, in the sink's order, the
\* qualifying rows in the order of the visits, page-major and row-minor; each
\* write appends the record of the row at hand, alone, at the end of the sink.
C14_SinkOrderIsVisitOrder ==
    /\ [](/\ Len(Sink) >= Len(emitted)
          /\ \A k \in 1..Len(emitted) :
                /\ emitted[k].record = Sink[Len(Sink) - Len(emitted) + k]
                /\ emitted[k].page = Qualifying[k].page
                /\ emitted[k].index = Qualifying[k].index
                /\ emitted[k].record[2] \in {CellError, CellText(emitted[k].page, emitted[k].index, 2)}
          /\ \A j, k \in 1..Len(emitted) :
                j < k => \/ emitted[j].page < emitted[k].page
                         \/ /\ emitted[j].page = emitted[k].page
                            /\ emitted[j].index < emitted[k].index)
    /\ [][emitted' # emitted =>
             /\ Len(emitted') = Len(emitted) + 1
             /\ emitted'[Len(emitted')].page = page_number
             /\ emitted'[Len(emitted')].index = index
             /\ Len(Sink') = Len(Sink) + 1
             /\ emitted'[Len(emitted')].record = Sink'[Len(Sink')]
             /\ \A k \in 1..Len(Sink) : Sink'[k] = Sink[k]]_vars

\* C14 witness: a finished run that recorded two rows of page 1 and two of page 2
C14_Witness ==
    /\ pc = "done" /\ Len(emitted) = 4
    /\ emitted[1].page = 1 /\ emitted[2].page = 1 /\ emitted[2].index = 2
    /\ emitted[3].page = 2 /\ emitted[4].page = 2
    /\ Len(file.lines) = 5

\* the lines of a trimmed text: none in the empty text, otherwise one more than
\* its line breaks
LineCount(t) == IF t = <<>> THEN 0 ELSE 1 + Cardinality({k \in 1..Len(t) : t[k] = "\n"})

\* t is s without the whitespace at its two ends
Trimmed(t, s) ==
    /\ t # <<>> => (t[1] \notin Whitespace /\ t[Len(t)] \notin Whitespace)
    /\ \E a \in 0..Len(s) :
          /\ a + Len(t) <= Len(s)
          /\ \A k \in 1..Len(t) : t[k] = s[a + k]
          /\ \A k \in (1..a) \cup ((a + Len(t) + 1)..Len(s)) : s[k] \in Whitespace

\* C15: on the blob path and on the click path, when the two reads of the <pre>
\* gave texts and no call raised, Details is the trimmed text of text_content()
\* if the trimmed inner_text() has fewer than 2 lines, and the trimmed
\* inner_text() if it has 2 or more; a surface without <pre> gives the sentinel.
C15_ShortReadFallsBack ==
    (pc = "write" /\ pre.read /\ ~handled) =>
        /\ path \in {"blob", "click"}
        /\ pre.found =>
              \E t \in {Strip(pre.inner)} :
                 /\ Trimmed(t, pre.inner)
                 /\ IF LineCount(t) < 2
                    THEN ~pre.none /\ Trimmed(detail_text, pre.content)
                    ELSE detail_text = t
        /\ ~pre.found => detail_text = NoPre

\* C15 witness: on the click path a one-line inner_text() and a two-line
\* text_content(), the row about to be written
C15_Witness ==
    /\ pc = "write" /\ path = "click" /\ pre.read /\ pre.found /\ ~handled
    /\ pre.inner = <<"A", " ", "B">>
    /\ detail_text = <<"A", "\n", "B">>

\* the record of row i of page p when its six cells were read and Details is d
RowRecord(p, i, d) ==
    <<CellText(p, i, 1), CellText(p, i, 2), CellText(p, i, 3), CellText(p, i, 4),
      CellText(p, i, 5), CellText(p, i, 6), d>>

\* the payload every detail surface of the planned site shows
Payload == <<"A", "\n", "B">>

\* the run of the scenario: on the planned site and a fresh sink, page 1 with its
\* three rows (a blob target, a target that needs clicks, no anchor), page 2 with
\* one row, then a disabled 'next'; no answer of the site was irregular
ScenarioRun ==
    /\ plan = "scenario" /\ run = 1 /\ budget = MaxIrregular
    /\ pc = "done" /\ ended = "last_page" /\ next_clicks = 1
    /\ Len(visited) = 4
    /\ \A k \in 1..4 : visited[k].ncols >= MinCells
    /\ visited[3].page = 1 /\ visited[3].index = 3
    /\ visited[4].page = 2 /\ visited[4].index = 1

\* C16: the run of the scenario, when the clicks of row 2 opened a surface, ends
\* with the header and four data lines in the sink, page 1 before page 2 and the
\* rows of page 1 in their order, Details being the payload of the blob target,
\* the payload the click revealed, the anchor-not-found sentinel, and the payload
\* of the row of page 2; and row 2 is written with the payload whenever one of
\* its clicks, after any failed ones, produced a surface.
C16_EndToEnd ==
    /\ (ScenarioRun /\ emitted[2].record[7] # FailedToOpen) =>
          /\ Len(file.lines) = 5
          /\ file.lines[1] = Header
          /\ RowRecord(1, 1, Payload) = file.lines[2]
          /\ RowRecord(1, 2, Payload) = file.lines[3]
          /\ RowRecord(1, 3, NoAnchor) = file.lines[4]
          /\ RowRecord(2, 1, Payload) = file.lines[5]
          /\ total_rows_processed = 4
          /\ ~fileOpen /\ buffer = <<>>
    /\ (plan = "scenario" /\ budget = MaxIrregular /\ pc = "write"
           /\ page_number = 1 /\ index = 2) =>
          /\ path = "click"
          /\ spawned > 0 => detail_text = Payload
          /\ spawned = 0 => (attempt = ClickAttempts /\ detail_text = FailedToOpen)

\* C16 witness: the run of the scenario ended with five lines in the sink
C16_Witness ==
    ScenarioRun /\ emitted[2].record[7] = Payload /\ Len(file.lines) = 5

\* the entries of the rows seen with at least 5 cells, in the order of the rows
RECURSIVE TenderExpected(_, _)
TenderExpected(seen, k) ==
    IF k > Len(seen) THEN <<>>
    ELSE (IF seen[k] >= MinTenderCells
          THEN <<[c \in 1..5 |-> <<TenderCols[c], ToString(k - 1)>>]>> ELSE <<>>)
         \o TenderExpected(seen, k + 1)

\* C17: in scrape_tenders, when the wait for the heading or the wait for the rows
\* times out, a screenshot is saved, no exception goes to the caller and no CSV is
\* written; the CSV is written only after the two waits succeeded and every row
\* was visited, and holds one entry per row of at least 5 cells and none for the
\* others.
C17_TenderTimeoutIsQuiet ==
    /\ tender.timed_out # "none" =>
          /\ tender.pc = "returned"
          /\ tender.error = "none"
          /\ tender.shots = 1
          /\ ~tender.csv.written
    /\ tender.csv.written =>
          /\ tender.timed_out = "none"
          /\ Len(tender.seen) = tender.row_count
          /\ tender.csv.rows = TenderExpected(tender.seen, 1)

\* C18: on the click path the clicks stop at the first one that produces a
\* surface: the clicks of a row produce at most one surface, none is issued once
\* a surface was produced, and at most one detail surface is open at any moment.
C18_ClicksStopAtFirstSurface ==
    /\ spawned <= 1
    /\ surfaces <= 1
    /\ (pc = "click" /\ spawned > 0) => attempt >= ClickAttempts

\* row 3 of page 1 of the planned site, which has no anchor, is at hand
AtRowWithoutAnchor == plan = "scenario" /\ page_number = 1 /\ index = 3 /\ InRow

\* C19: a qualifying row without anchor goes from the search for the anchor
\* straight to its record, Details being the anchor-not-found sentinel: no target
\* is read, no click is issued, no detail surface is opened, no <pre> is read.
C19_NoAnchorNoAttempt ==
    /\ [](AtRowWithoutAnchor =>
            /\ pc \in {"anchor", "write"}
            /\ path \notin {"blob", "click"}
            /\ attempt = 0 /\ spawned = 0 /\ ~detail_page /\ ~pre.read /\ excs = 0
            /\ pc = "write" => (detail_text = NoAnchor /\ path = "noanchor"))
    /\ []((pc = "write" /\ path = "noanchor") =>
            (detail_text = NoAnchor /\ attempt = 0 /\ spawned = 0 /\ ~detail_page /\ ~pre.read))
    /\ [][(AtRowWithoutAnchor /\ pc = "anchor") =>
             (pc' = "write" /\ UNCHANGED <<surfaces, attempt, spawned, detail_page>>)]_vars
    /\ [][(AtRowWithoutAnchor /\ pc = "write") =>
             (/\ emitted' # <<>>
              /\ emitted'[Len(emitted')].record[7] = NoAnchor
              /\ UNCHANGED surfaces)]_vars

\* C19 witness: the row without anchor is about to be written
C19_Witness ==
    AtRowWithoutAnchor /\ pc = "write" /\ detail_text = NoAnchor /\ surfaces = 0

\* C20: the page number starts at 1 and changes only by +1, in the step in which
\* 'next' was present, not disabled, and its click and settle delay completed;
\* that step changes it exactly once, a step that ends the page loop never
\* does, and so it is 1 plus the number of successful 'next' clicks.
C20_PageNumberCountsNextClicks ==
    /\ [](page_number = 1 + next_clicks)
    /\ [](pc \in {"launch", "goto", "open_sink"} => page_number = 1)
    /\ [][page_number' # page_number =>
             /\ page_number' = page_number + 1
             /\ pc = "next" /\ pc' = "wait_rows"
             /\ next_button' = "present" /\ is_disabled' \in {"false", "None"}
             /\ ended = "none" /\ ended' = "none"]_vars
    /\ [][(pc = "next" /\ pc' = "wait_rows") => page_number' = page_number + 1]_vars
    /\ [][ended' # "none" => UNCHANGED page_number]_vars
    /\ [][pc' \in {"raised", "exit_with", "close_browser", "done"} => UNCHANGED page_number]_vars

\* C20 witness: the second page is awaited after a 'next' whose aria-disabled
\* attribute was absent
C20_Witness ==
    pc = "wait_rows" /\ page_number = 2 /\ next_clicks = 1 /\ is_disabled = "None"
        /\ Len(emitted) = 2
====
